---- MODULE Spec2Model ----
(***************************************************************************)
(* Model of the relational core of codd (src/src/lib.rs): schema-checked   *)
(* row storage (Relation::insert_row / insert_rows over the two Data       *)
(* representations) and the Projection operator (ProjAttrs::execute).      *)
(*                                                                         *)
(* Encoding.  A Value is a pair <<tag, n>> with tag "Str" or "Int"; the    *)
(* payload of a Str is represented by its rank n among the strings used.   *)
(* Option<usize> is an integer with None for the absent case; positions    *)
(* are 0-based as in the source, so row[pk] is written row[pk + 1].        *)
(* A BTreeMap is a function from its keys; a panic (index out of range,    *)
(* unwrap of an absent option) is the result tag "panic", after which the  *)
(* process takes no further step.                                          *)
(***************************************************************************)
EXTENDS Integers, Sequences, FiniteSets, TLC

\* ------------------------------------------------------------------ bounds
MaxVal == 2
MaxBatch == 2
MaxRows == 2

\* ------------------------------------------------------- value/type domain
Type == {"Str", "Int"}

\* the strings in use, by rank: "bar", "foo"
StrRanks == {1, 2}

Value == ({"Str"} \X StrRanks) \cup ({"Int"} \X (1..MaxVal))

\* derive(PartialOrd, Ord) on enum Value { Str, Int }: variant, then payload
VariantRank(v) == IF v[1] = "Str" THEN 0 ELSE 1

ValueLess(u, v) ==
    \/ VariantRank(u) < VariantRank(v)
    \/ VariantRank(u) = VariantRank(v) /\ u[2] < v[2]

Attribute == [name : {"a", "b", "c"}, atype : Type]

Attr(n, t) == [name |-> n, atype |-> t]

None == -1

NoKey == <<"None", 0>>

\* impl PartialEq<Value> for Type
TypeEqValue(t, v) == t = v[1]

\* validate_row without its arity test
validate_row_zip_only(attributes, row) ==
    \A i \in (DOMAIN attributes) \cap (DOMAIN row) :
        TypeEqValue(attributes[i].atype, row[i])

\* Schema::validate_row; zip stops at the shorter of the two sequences
validate_row(attributes, row) ==
    IF Len(row) # Len(attributes)
    THEN FALSE
    ELSE \A i \in (DOMAIN attributes) \cap (DOMAIN row) :
            TypeEqValue(attributes[i].atype, row[i])

\* ------------------------------------------------------------------ storage
EmptyWithPK == [kind |-> "WithPK", key |-> 0, tree |-> << >>]

EmptyNoPK == [kind |-> "NoPK", key |-> 0, tree |-> << >>]

\* BTreeMap::insert: writes, replacing what the key held
TreeInsert(tree, k, row) ==
    [x \in (DOMAIN tree) \cup {k} |-> IF x = k THEN row ELSE tree[x]]

\* Data::insert whose NoPK arm leaves the counter where it was
Data_insert_no_increment(data, key, row) ==
    IF data.kind = "WithPK"
    THEN IF key = NoKey
         THEN [data |-> data, ok |-> FALSE]
         ELSE [data |-> [data EXCEPT !.tree = TreeInsert(data.tree, key, row)],
               ok |-> TRUE]
    ELSE [data |-> [data EXCEPT !.tree = TreeInsert(data.tree, data.key, row)],
          ok |-> TRUE]

\* Data::insert
Data_insert(data, key, row) ==
    IF data.kind = "WithPK"
    THEN IF key = NoKey
         THEN [data |-> data, ok |-> FALSE]
         ELSE [data |-> [data EXCEPT !.tree = TreeInsert(data.tree, key, row)],
               ok |-> TRUE]
    ELSE [data |-> [data EXCEPT !.tree = TreeInsert(data.tree, data.key, row),
                                !.key = data.key + 1],
          ok |-> TRUE]

\* Data::contains, WithPK arm, as the relation calls it (key given, row None)
Data_contains(data, key) ==
    IF data.kind = "WithPK"
    THEN key # NoKey /\ key \in DOMAIN data.tree
    ELSE FALSE

KeyLess(data, j, k) == IF data.kind = "WithPK" THEN ValueLess(j, k) ELSE j < k

RECURSIVE KeysInOrder(_, _)
KeysInOrder(data, ks) ==
    IF ks = {}
    THEN << >>
    ELSE LET m == CHOOSE k \in ks : \A j \in ks \ {k} : KeyLess(data, k, j)
         IN  <<m>> \o KeysInOrder(data, ks \ {m})

\* Data::tuples: the rows in the map's key order
Data_tuples(data) ==
    LET ks == KeysInOrder(data, DOMAIN data.tree)
    IN  [i \in 1..Len(ks) |-> data.tree[ks[i]]]

SeqToSet(s) == {s[i] : i \in DOMAIN s}

\* ----------------------------------------------------------------- relation
Outcome(rel, ret) == [rel |-> rel, ret |-> ret]

\* insert_row without the stored-key test
insert_row_overwrite(rel, row) ==
    IF ~validate_row(rel.schema, row)
    THEN Outcome(rel, "false")
    ELSE IF rel.pk = None
    THEN LET r == Data_insert(rel.data, NoKey, row)
         IN  Outcome([rel EXCEPT !.data = r.data], IF r.ok THEN "true" ELSE "false")
    ELSE IF rel.pk >= Len(row)
    THEN Outcome(rel, "panic")
    ELSE Outcome([rel EXCEPT !.data = Data_insert(rel.data, row[rel.pk + 1], row).data],
                 "true")

\* insert_row that refuses, on a keyless relation, a row equal to a stored one
insert_row_reject_duplicate(rel, row) ==
    IF ~validate_row(rel.schema, row)
    THEN Outcome(rel, "false")
    ELSE IF rel.pk = None
    THEN IF \E k \in DOMAIN rel.data.tree : rel.data.tree[k] = row
         THEN Outcome(rel, "false")
         ELSE LET r == Data_insert(rel.data, NoKey, row)
              IN  Outcome([rel EXCEPT !.data = r.data],
                          IF r.ok THEN "true" ELSE "false")
    ELSE IF rel.pk >= Len(row)
    THEN Outcome(rel, "panic")
    ELSE IF Data_contains(rel.data, row[rel.pk + 1])
    THEN Outcome(rel, "false")
    ELSE Outcome([rel EXCEPT !.data = Data_insert(rel.data, row[rel.pk + 1], row).data],
                 "true")

\* Relation::insert_row
insert_row(rel, row) ==
    IF ~validate_row(rel.schema, row)
    THEN Outcome(rel, "false")
    ELSE IF rel.pk = None
    THEN LET r == Data_insert(rel.data, NoKey, row)
         IN  Outcome([rel EXCEPT !.data = r.data], IF r.ok THEN "true" ELSE "false")
    ELSE IF rel.pk >= Len(row)
    THEN Outcome(rel, "panic")
    ELSE IF Data_contains(rel.data, row[rel.pk + 1])
    THEN Outcome(rel, "false")
    ELSE Outcome([rel EXCEPT !.data = Data_insert(rel.data, row[rel.pk + 1], row).data],
                 "true")

\* the commit loop keyed by the first column whatever the pk is
RECURSIVE InsertAll_first_column(_, _, _)
InsertAll_first_column(data, pk, rows) ==
    IF rows = << >>
    THEN data
    ELSE LET row == Head(rows)
             key == IF pk = None THEN NoKey ELSE row[1]
         IN  InsertAll_first_column(Data_insert(data, key, row).data, pk, Tail(rows))

\* the commit loops of insert_rows: for row in rows { data.insert(..) }
RECURSIVE InsertAll(_, _, _)
InsertAll(data, pk, rows) ==
    IF rows = << >>
    THEN data
    ELSE LET row == Head(rows)
             key == IF pk = None THEN NoKey ELSE row[pk + 1]
         IN  InsertAll(Data_insert(data, key, row).data, pk, Tail(rows))

\* insert_rows that inserts row by row and stops at the first rejected row
RECURSIVE insert_rows_incremental(_, _)
insert_rows_incremental(rel, rows) ==
    IF rows = << >>
    THEN Outcome(rel, "true")
    ELSE LET r == insert_row(rel, Head(rows))
         IN  IF r.ret # "true"
             THEN r
             ELSE insert_rows_incremental(r.rel, Tail(rows))

\* Relation::insert_rows
insert_rows(rel, rows) ==
    IF \E i \in DOMAIN rows : ~validate_row(rel.schema, rows[i])
    THEN Outcome(rel, "false")
    ELSE IF rel.pk = None
    THEN Outcome([rel EXCEPT !.data = InsertAll(rel.data, None, rows)], "true")
    ELSE IF \E i \in DOMAIN rows : rel.pk >= Len(rows[i])
    THEN Outcome(rel, "panic")
    ELSE IF Cardinality({rows[i][rel.pk + 1] : i \in DOMAIN rows}) # Len(rows)
    THEN Outcome(rel, "false")
    ELSE IF \E i \in DOMAIN rows : Data_contains(rel.data, rows[i][rel.pk + 1])
    THEN Outcome(rel, "false")
    ELSE Outcome([rel EXCEPT !.data = InsertAll(rel.data, rel.pk, rows)], "true")

\* -------------------------------------------------------------- projection
NoRelation == [name |-> "", pk |-> None, schema |-> << >>, data |-> EmptyNoPK]

Result(tag, rel) == [tag |-> tag, rel |-> rel]

\* the iteration orders a std HashSet of these rows can have (RandomState
\* seeds every set differently, so the order is any enumeration)
HashSetOrders(S) ==
    {s \in [1..Cardinality(S) -> S] :
        \A i, j \in 1..Cardinality(S) : i # j => s[i] # s[j]}

\* self.iter().all(|a| relation.schema.attributes.contains(a))
satisfied(attrs, rel) ==
    \A i \in DOMAIN attrs : \E j \in DOMAIN rel.schema : rel.schema[j] = attrs[i]

\* relation.schema.attributes.iter().position(|x| x == a), 0-based
position(attributes, a) ==
    (CHOOSE j \in DOMAIN attributes :
        /\ attributes[j] = a
        /\ \A k \in DOMAIN attributes : attributes[k] = a => j <= k) - 1

selected_attrs_indices(attrs, rel) ==
    [i \in DOMAIN attrs |-> position(rel.schema, attrs[i])]

\* inner.iter().enumerate().filter(|(index, _)| indices.contains(index))
RECURSIVE FilterFrom(_, _, _)
FilterFrom(inner, indices, i) ==
    IF i > Len(inner)
    THEN << >>
    ELSE (IF (i - 1) \in SeqToSet(indices) THEN <<inner[i]>> ELSE << >>)
         \o FilterFrom(inner, indices, i + 1)

project_row(inner, indices) == FilterFrom(inner, indices, 1)

\* the pk the derived relation of an explicit projection declares
derived_pk(rel, pk_missing) == IF pk_missing THEN None ELSE rel.pk

\* let mut derived = Relation {..}; derived.insert_rows(values); Some(derived)
derive(pk, schema, values) ==
    LET fresh == [name |-> "derived", pk |-> pk, schema |-> schema,
                  data |-> IF pk # None THEN EmptyWithPK ELSE EmptyNoPK]
        r == insert_rows(fresh, values)
    IN  IF r.ret = "panic" THEN Result("panic", NoRelation) ELSE Result("Some", r.rel)

\* SELECT * that inserts the tuples as stored, without the HashSet
select_all_no_dedup(rel) ==
    {derive(rel.pk, rel.schema, Data_tuples(rel.data))}

\* ProjAttrs::None arm of execute: SELECT *
select_all(rel) ==
    {derive(rel.pk, rel.schema, values) :
        values \in HashSetOrders(SeqToSet(Data_tuples(rel.data)))}

\* the explicit-attribute part of execute
select_attrs(attrs, rel) ==
    IF ~satisfied(attrs, rel)
    THEN {Result("None", NoRelation)}
    ELSE IF rel.pk = None
    THEN {Result("panic", NoRelation)}
    ELSE LET indices == selected_attrs_indices(attrs, rel)
             pk_missing == rel.pk \notin SeqToSet(indices)
             projected == {project_row(inner, indices) :
                              inner \in SeqToSet(Data_tuples(rel.data))}
         IN  {derive(derived_pk(rel, pk_missing), attrs, values) :
                 values \in HashSetOrders(projected)}

\* ProjAttrs::execute: every result the call can produce
execute(attrs, rel) ==
    IF attrs = << >> THEN select_all(rel) ELSE select_attrs(attrs, rel)

\* ------------------------------------------------------------ state machine
VARIABLES relation, op, arg, ret, ret2

vars == <<relation, op, arg, ret, ret2>>

NoCall == Result("init", NoRelation)

\* create_test_schema: | a INT | b STR |
TestSchema == <<Attr("a", "Int"), Attr("b", "Str")>>

\* base relations as the tests construct them: the key absent or on either
\* column, storage matching the key's presence
BaseRelations ==
    {[name |-> "test", pk |-> pk, schema |-> TestSchema,
      data |-> IF pk # None THEN EmptyWithPK ELSE EmptyNoPK] :
        pk \in {None, 0, 1}}

SeqsUpTo(S, n) == UNION {[1..k -> S] : k \in 0..n}

\* the rows of the schema's arity that validate_row accepts
ValidRows(schema) == {row \in [DOMAIN schema -> Value] : validate_row(schema, row)}

OtherType(t) == IF t = "Str" THEN "Int" ELSE "Str"

Mistyped(schema) == [i \in DOMAIN schema |-> <<OtherType(schema[i].atype), 1>>]

\* rows offered to insert_row: the rows the schema accepts, one row with the
\* wrong type in every column, a row too short and a row too long
RowsIn(schema) ==
    ValidRows(schema)
        \cup {Mistyped(schema), << >>,
              [i \in 1..(Len(schema) + 1) |->
                  IF i <= Len(schema) THEN <<schema[i].atype, 1>> ELSE <<"Int", 1>>]}

\* rows offered in a batch: the rows the schema accepts and the mistyped row
BatchRowsIn(schema) ==
    ValidRows(schema) \cup {Mistyped(schema)}

\* attributes a projection can ask for: those of the test schema, one with a
\* known name and the wrong type, one with an unknown name
AttributesIn ==
    {Attr("a", "Int"), Attr("b", "Str"), Attr("a", "Str"), Attr("c", "Int")}


AttrsIn == SeqsUpTo(AttributesIn, 2)

Size(rel) == Cardinality(DOMAIN rel.data.tree)

\* no panic has aborted the process
Running == ret.tag # "panic" /\ ret2.tag # "panic"

\* the host is between two calls
Idle == op = "init"

Init ==
    /\ relation \in BaseRelations
    /\ op = "init"
    /\ arg = << >>
    /\ ret = NoCall
    /\ ret2 = NoCall

InsertRow ==
    /\ Idle
    /\ \E row \in RowsIn(relation.schema) :
        LET r == insert_row(relation, row)
        IN  /\ Size(r.rel) <= MaxRows
            /\ relation' = r.rel
            /\ op' = "insert_row"
            /\ arg' = row
            /\ ret' = Result(r.ret, NoRelation)
            /\ ret2' = NoCall

InsertRows ==
    /\ Idle
    /\ \E rows \in SeqsUpTo(BatchRowsIn(relation.schema), MaxBatch) :
        LET r == insert_rows(relation, rows)
        IN  /\ Size(r.rel) <= MaxRows
            /\ relation' = r.rel
            /\ op' = "insert_rows"
            /\ arg' = rows
            /\ ret' = Result(r.ret, NoRelation)
            /\ ret2' = NoCall

\* Operator::evaluate on Unary(Projection(attrs, &relation))
Evaluate ==
    /\ Idle
    /\ \E attrs \in AttrsIn :
        \E r \in execute(attrs, relation) :
            /\ op' = "evaluate"
            /\ arg' = attrs
            /\ ret' = r
            /\ ret2' = NoCall
            /\ UNCHANGED relation

\* the same projection evaluated a second time on the unchanged relation
EvaluateAgain ==
    /\ Running
    /\ op = "evaluate"
    /\ \E r \in execute(arg, relation) :
        /\ op' = "again"
        /\ ret2' = r
        /\ UNCHANGED <<relation, arg, ret>>

\* Operator::evaluate on Unary(Selection(_, _)): the stub returns None
EvaluateSelection ==
    /\ Idle
    /\ op' = "selection"
    /\ arg' = << >>
    /\ ret' = Result("None", NoRelation)
    /\ ret2' = NoCall
    /\ UNCHANGED relation

\* the host goes on with the relation a projection of a base relation
\* returned (let derived = result.unwrap(); ... &derived)
UseDerived ==
    /\ Running
    /\ op \in {"evaluate", "again"}
    /\ relation.name = "test"
    /\ ret.tag = "Some"
    /\ relation' = ret.rel
    /\ op' = "init"
    /\ arg' = << >>
    /\ ret' = NoCall
    /\ ret2' = NoCall

\* the host has looked at what a call returned and goes on to its next call
Continue ==
    /\ Running
    /\ ~Idle
    /\ op' = "init"
    /\ arg' = << >>
    /\ ret' = NoCall
    /\ ret2' = NoCall
    /\ UNCHANGED relation

Next ==
    \/ InsertRow
    \/ InsertRows
    \/ Evaluate
    \/ EvaluateAgain
    \/ EvaluateSelection
    \/ UseDerived
    \/ Continue

Spec == Init /\ [][Next]_vars

TypeOK ==
    /\ op \in {"init", "insert_row", "insert_rows", "evaluate", "again", "selection"}
    /\ ret.tag \in {"init", "true", "false", "Some", "None", "panic"}

\* ------------------------------------------------------------------ claims
Tree(rel) == rel.data.tree

Keyed(rel) == rel.pk # None

\* the key value of a row of a keyed relation
KeyOf(rel, row) == row[rel.pk + 1]

AllValid(rel, rows) == \A i \in DOMAIN rows : validate_row(rel.schema, rows[i])

\* C1: a call of insert_rows that returns false leaves the relation as it
\* was: the stored rows, their keys and the surrogate counter are unchanged,
\* no prefix of the batch is committed.
C1_InsertRowsAtomic ==
    [][(op' = "insert_rows" /\ ret'.tag = "false") => relation' = relation]_vars

\* a batch of two valid rows was rejected because its second row's key is
\* stored, while its first row's key is not
C1_Witness ==
    /\ op = "insert_rows" /\ ret.tag = "false"
    /\ Keyed(relation) /\ Len(arg) = 2 /\ AllValid(relation, arg)
    /\ KeyOf(relation, arg[1]) \notin DOMAIN Tree(relation)
    /\ KeyOf(relation, arg[2]) \in DOMAIN Tree(relation)

\* C5: insert_row on a keyed relation with a valid row: if the row's key is
\* not stored the call returns true and the relation then holds the row at
\* that key, every other entry unchanged; if the key is stored the call
\* returns false and the relation is unchanged.
C5_InsertRowKeyed ==
    [][(/\ op' = "insert_row"
        /\ Keyed(relation)
        /\ validate_row(relation.schema, arg')
        /\ relation.pk < Len(arg'))
       => IF KeyOf(relation, arg') \notin DOMAIN Tree(relation)
          THEN /\ ret'.tag = "true"
               /\ DOMAIN Tree(relation') = DOMAIN Tree(relation) \cup {KeyOf(relation, arg')}
               /\ Tree(relation')[KeyOf(relation, arg')] = arg'
               /\ \A k \in DOMAIN Tree(relation) : Tree(relation')[k] = Tree(relation)[k]
               /\ Size(relation') = Size(relation) + 1
          ELSE /\ ret'.tag = "false"
               /\ relation' = relation]_vars

\* a valid row was rejected because another row is stored at its key
C5_Witness ==
    /\ op = "insert_row" /\ ret.tag = "false"
    /\ Keyed(relation) /\ validate_row(relation.schema, arg)
    /\ relation.pk < Len(arg)
    /\ KeyOf(relation, arg) \in DOMAIN Tree(relation)
    /\ Tree(relation)[KeyOf(relation, arg)] # arg

\* the variant of every value is the type at its position, and the arities agree
VariantsMatch(attributes, row) ==
    /\ Len(row) = Len(attributes)
    /\ \A i \in 1..Len(attributes) : row[i][1] = attributes[i].atype

\* C10: validate_row is true exactly when the row has the schema's length
\* and every value's variant is the type at its position; a row it refuses
\* is not inserted.
C10_ValidateRow ==
    op = "insert_row" =>
        /\ validate_row(relation.schema, arg) <=> VariantsMatch(relation.schema, arg)
        /\ ~VariantsMatch(relation.schema, arg) => ret.tag = "false"

\* a row shorter than the schema was offered and refused
C10_Witness ==
    /\ op = "insert_row" /\ ret.tag = "false"
    /\ Len(arg) < Len(relation.schema)

TupleSet(rel) == SeqToSet(Data_tuples(rel.data))

\* what the call (op evaluate) or calls (op again) of the projection returned
Returned == IF op = "again" THEN {ret, ret2} ELSE {ret}

Projecting == op \in {"evaluate", "again"}

\* C6: select-all returns a relation named "derived" with the source's
\* schema, pk index and matching storage kind, holding every distinct tuple
\* of the source once; select-all of that result holds the same tuple set.
C6_SelectAll ==
    (Projecting /\ arg = << >>) =>
        \A r \in Returned :
            /\ r.tag = "Some"
            /\ r.rel.name = "derived"
            /\ r.rel.schema = relation.schema
            /\ r.rel.pk = relation.pk
            /\ r.rel.data.kind = (IF Keyed(relation) THEN "WithPK" ELSE "NoPK")
            /\ TupleSet(r.rel) = TupleSet(relation)
            /\ Size(r.rel) = Cardinality(TupleSet(relation))
            /\ \A rr \in execute(<< >>, r.rel) :
                    rr.tag = "Some" /\ TupleSet(rr.rel) = TupleSet(r.rel)

\* select-all of a keyless relation that stores the same row twice
C6_Witness ==
    /\ op = "evaluate" /\ arg = << >> /\ ret.tag = "Some"
    /\ ~Keyed(relation)
    /\ Cardinality(TupleSet(relation)) < Size(relation)

\* C9 as stated: the second evaluation of a projection on the unchanged
\* relation returns a relation identical to the first, surrogate identifiers
\* and enumeration order included.
C9_Identical == op = "again" => ret2 = ret

\* C9 amended: the two evaluations agree on the result kind, name, schema,
\* pk, storage kind, counter and set and number of tuples; on Keyed storage
\* they are identical; on Surrogate storage the identifier a row receives
\* follows the iteration order of the deduplication set and can differ.
C9_SameUpToOrder ==
    op = "again" =>
        /\ ret2.tag = ret.tag
        /\ ret2.rel.name = ret.rel.name
        /\ ret2.rel.schema = ret.rel.schema
        /\ ret2.rel.pk = ret.rel.pk
        /\ ret2.rel.data.kind = ret.rel.data.kind
        /\ ret2.rel.data.key = ret.rel.data.key
        /\ DOMAIN Tree(ret2.rel) = DOMAIN Tree(ret.rel)
        /\ TupleSet(ret2.rel) = TupleSet(ret.rel)
        /\ ret.rel.data.kind = "WithPK" => ret2 = ret

\* two evaluations of one projection gave the rows different identifiers
C9_Witness ==
    /\ op = "again" /\ ret.tag = "Some" /\ ret2.tag = "Some"
    /\ ret.rel.data.kind = "NoPK"
    /\ Data_tuples(ret2.rel.data) # Data_tuples(ret.rel.data)

\* no attribute is requested twice
Distinct(attrs) == \A i, j \in DOMAIN attrs : i # j => attrs[i] # attrs[j]

\* the row the specification describes: the values at the source positions
\* of the requested attributes, in the requested order
RequestedRow(attrs, rel, row) ==
    [i \in DOMAIN attrs |-> row[position(rel.schema, attrs[i]) + 1]]

RequestedRows(attrs, rel) == {RequestedRow(attrs, rel, row) : row \in TupleSet(rel)}

\* the source declares a key and the key's attribute is requested
KeyRequested(attrs, rel) ==
    /\ Keyed(rel)
    /\ rel.pk < Len(rel.schema)
    /\ \E i \in DOMAIN attrs : attrs[i] = rel.schema[rel.pk + 1]

\* C2: a projection on distinct attributes of the source schema, in any
\* order, that returns a relation returns one whose schema is the requested
\* list and whose tuples are the source rows' values taken in the requested
\* order.
C2_RequestedOrder ==
    (/\ op = "evaluate" /\ arg # << >>
     /\ satisfied(arg, relation) /\ Distinct(arg)
     /\ ret.tag = "Some")
    => /\ ret.rel.schema = arg
       /\ TupleSet(ret.rel) = RequestedRows(arg, relation)

\* C3: when the source's key attribute is requested, projection returns a
\* Keyed relation whose pk is the key attribute's position in the requested
\* list, with one row per source row, each stored under its key value.
C3_KeyPropagation ==
    (/\ op = "evaluate" /\ arg # << >>
     /\ satisfied(arg, relation) /\ Distinct(arg)
     /\ KeyRequested(arg, relation))
    => /\ ret.tag = "Some"
       /\ ret.rel.pk = position(arg, relation.schema[relation.pk + 1])
       /\ ret.rel.data.kind = "WithPK"
       /\ Size(ret.rel) = Size(relation)
       /\ \A k \in DOMAIN Tree(ret.rel) : Tree(ret.rel)[k][ret.rel.pk + 1] = k

\* C4: when the source has no key or its key attribute is not requested,
\* projection returns a keyless Surrogate relation that holds each distinct
\* projected row once, under the identifiers 0..n-1, with counter n.
C4_KeyDropped ==
    (/\ op = "evaluate" /\ arg # << >>
     /\ satisfied(arg, relation) /\ Distinct(arg)
     /\ ~KeyRequested(arg, relation))
    => /\ ret.tag = "Some"
       /\ ret.rel.pk = None
       /\ ret.rel.data.kind = "NoPK"
       /\ TupleSet(ret.rel) = RequestedRows(arg, relation)
       /\ DOMAIN Tree(ret.rel) = 0..(Cardinality(RequestedRows(arg, relation)) - 1)
       /\ ret.rel.data.key = Cardinality(RequestedRows(arg, relation))

\* some requested attribute has no attribute of the schema with its name and type
Missing(attrs, rel) ==
    \E i \in DOMAIN attrs :
        \A j \in DOMAIN rel.schema :
            rel.schema[j].name # attrs[i].name \/ rel.schema[j].atype # attrs[i].atype

\* C7: a projection on a non-empty attribute list returns None exactly when
\* a requested attribute is missing from the schema, returns a relation in
\* every other case, and leaves the source unchanged.
C7_NoneIffMissing ==
    [][(op' = "evaluate" /\ arg' # << >>)
       => /\ ret'.tag = "None" <=> Missing(arg', relation)
          /\ ~Missing(arg', relation) => ret'.tag = "Some"
          /\ relation' = relation]_vars

\* C8: no operation aborts: every call of evaluate, insert_row or
\* insert_rows completes with a boolean or optional result.
C8_NoPanic == ret.tag # "panic" /\ ret2.tag # "panic"

\* C11: in every state a keyed relation reaches through insert_row and
\* insert_rows calls, successful or failed, every stored row has the
\* schema's arity and types, no two stored rows have the same value at the
\* primary-key position, and every row is stored under its own key value.
C11_KeyedInvariant ==
    Keyed(relation) =>
        /\ \A k \in DOMAIN Tree(relation) :
              /\ VariantsMatch(relation.schema, Tree(relation)[k])
              /\ validate_row(relation.schema, Tree(relation)[k])
              /\ relation.pk < Len(Tree(relation)[k])
              /\ KeyOf(relation, Tree(relation)[k]) = k
        /\ \A j, k \in DOMAIN Tree(relation) :
              j # k => KeyOf(relation, Tree(relation)[j]) # KeyOf(relation, Tree(relation)[k])

\* a base relation keyed on its second column holds two rows after a batch
C11_Witness ==
    /\ relation.name = "test" /\ relation.pk = 1
    /\ op = "insert_rows" /\ ret.tag = "true"
    /\ Len(arg) = 2 /\ Size(relation) = 2

\* the rows a call of insert_row or insert_rows presents, in order
Presented == IF op = "insert_row" THEN <<arg>> ELSE arg

\* C12: on a relation without a primary key every insert_row / insert_rows
\* call whose rows are all valid returns true, duplicates included; the
\* rows are appended in the order presented, tuples() returns them in that
\* order, the identifiers are 0..n-1 with the counter n, and the counter
\* never decreases nor hands out an identifier again.
C12_SurrogateInsert ==
    [][(/\ op' \in {"insert_row", "insert_rows"}
        /\ ~Keyed(relation)
        /\ AllValid(relation, Presented'))
       => /\ ret'.tag = "true"
          /\ Data_tuples(relation'.data) = Data_tuples(relation.data) \o Presented'
          /\ relation'.data.key = relation.data.key + Len(Presented')
          /\ relation'.data.key >= relation.data.key
          /\ DOMAIN Tree(relation') = 0..(relation'.data.key - 1)
          /\ \A k \in DOMAIN Tree(relation) : Tree(relation')[k] = Tree(relation)[k]
          /\ \A i \in DOMAIN Presented' :
                Tree(relation')[relation.data.key + i - 1] = Presented'[i]]_vars

\* insert_row accepted, on a keyless relation, a row equal to one stored before
C12_Witness ==
    /\ op = "insert_row" /\ ret.tag = "true" /\ ~Keyed(relation)
    /\ Tree(relation)[relation.data.key - 1] = arg
    /\ \E k \in DOMAIN Tree(relation) :
          k < relation.data.key - 1 /\ Tree(relation)[k] = arg

====
